---- MODULE Spec2Model ----
(***************************************************************************)
(* Luxe Jewelry: the Identity Service (auth-service/main.py) and the       *)
(* Catalog/Cart Service (backend/main.py) as one state machine.            *)
(*                                                                         *)
(* Opaque strings (uuid4 user ids, session ids, cart item ids) are natural *)
(* numbers: two of them are the same string iff they are the same number.  *)
(* A Python Optional is a set with at most one element: None is {}.        *)
(* Time is counted in ticks, TicksPerSecond of them to the second, so that *)
(* datetime values keep a sub-second part and the whole-second "exp" claim *)
(* of a token is a real truncation.                                        *)
(***************************************************************************)
EXTENDS Integers, Sequences, FiniteSets, TLC

VARIABLES
    now,            \* the wall clock, in ticks
    users_db,       \* auth-service: user id -> user record
    issued,         \* the tokens clients keep, each with when and for whom
                    \* it was issued
    carts_db,       \* backend: session id -> list of cart items
    user_carts_db,  \* backend: user id -> list of cart items
    uuid_ctr,       \* number of cart item uuids drawn so far
    req,            \* backend: the cart requests being handled
    resp            \* the last response either service gave a client

vars == <<now, users_db, issued, carts_db, user_carts_db, uuid_ctr, req, resp>>

authVars == <<users_db, issued>>
cartVars == <<carts_db, user_carts_db, uuid_ctr, req>>

(***************************************************************************)
(* Bounds of the model.                                                    *)
(***************************************************************************)
MaxUsers == 2         \* user ids uuid4 can return
MaxSessions == 2      \* session ids callers supply
MaxItems == 2         \* cart item uuids uuid4 can return
MaxQty == 3           \* largest quantity an entry is taken to
MaxAddQty == 2        \* largest quantity of one request
MaxReqs == 2          \* cart requests handled at the same time
MaxTokens == 1        \* tokens the clients keep for good
MaxEarly == 1         \* ticks of the clock observed from the start
Window == 1           \* ticks observed before the first expiry
TicksPerSecond == 2   \* resolution of the clock

(***************************************************************************)
(* Python values.                                                          *)
(***************************************************************************)
None == {}
Some(x) == {x}
The(o) == CHOOSE x \in o : TRUE

UserIds == 1 .. MaxUsers
SessionIds == 1 .. MaxSessions
ReqIds == 1 .. MaxReqs

(***************************************************************************)
(* Tokens (PyJWT, HS256).  A compact JWS has three segments; the signature *)
(* is a function of the key and the payload, so a token verifies under a   *)
(* key iff its signature is the one that key gives to its payload.         *)
(***************************************************************************)
SECRET_KEY == "your-secret-key-change-in-production"
JWT_SECRET_KEY == "your-secret-key-change-in-production"
ACCESS_TOKEN_EXPIRE_MINUTES == 30

HS256(key, sub, exp) == <<key, sub, exp>>

\* jwt.encode(payload, key, algorithm=ALGORITHM)
jwt_encode(sub, exp, key) ==
    [segments |-> 3, sub |-> sub, exp |-> exp, sig |-> HS256(key, sub, exp)]

\* timedelta(minutes=m), in ticks
timedelta_minutes(m) == m * 60 * TicksPerSecond

\* timegm(d.utctimetuple()): a datetime as whole seconds since the epoch
timegm(t) == t \div TicksPerSecond

\* The expiry check of jwt.decode at clock t.  PyJWT from 2.6 on compares
\* the claim with the fractional clock (exp <= now); earlier releases
\* compare it with the clock truncated to seconds (exp < now).
exp_passed(exp, t, legacy) ==
    IF legacy THEN exp < timegm(t) ELSE exp * TicksPerSecond <= t

\* jwt.decode(token, key, algorithms=[ALGORITHM]): the payload, or None
\* where PyJWT raises a PyJWTError
jwt_decode(token, key, t, legacy) ==
    IF token.segments # 3 THEN None
    ELSE IF token.sig # HS256(key, token.sub, token.exp) THEN None
    ELSE IF token.exp # None /\ exp_passed(The(token.exp), t, legacy) THEN None
    ELSE Some([sub |-> token.sub, exp |-> token.exp])

\* create_access_token always taking its default of 15 minutes
create_access_token_default(sub, expires_delta, t) ==
    jwt_encode(sub, Some(timegm(t + timedelta_minutes(15))), SECRET_KEY)

create_access_token(sub, expires_delta, t) ==
    LET expire == IF expires_delta # None THEN t + The(expires_delta)
                  ELSE t + timedelta_minutes(15)
    IN jwt_encode(sub, Some(timegm(expire)), SECRET_KEY)

(***************************************************************************)
(* What a client can put in the Authorization header: a token it holds, a  *)
(* token signed with a key of its own, a held token with another subject   *)
(* written into the payload, or something that is no JWT at all.           *)
(***************************************************************************)
AttackerKey == "not-the-secret"
Garbage == [segments |-> 1, sub |-> None, exp |-> None, sig |-> <<>>]
Held == {i.token : i \in issued} \cup resp.access_token
Forged == {jwt_encode(Some(u), None, AttackerKey) : u \in UserIds}
Tampered == {[k EXCEPT !.sub = Some(u)] : k \in Held, u \in UserIds} \ Held
BadTokens == Forged \cup Tampered \cup {Garbage}
Credentials == {None} \cup {Some(k) : k \in Held \cup BadTokens}

\* a correctly signed token that this Identity Service did not issue (the
\* secret is a default both services ship with): no expiry, and a subject
\* that is missing or the id of no stored user
Foreign ==
    {jwt_encode(sub, None, SECRET_KEY) :
        sub \in {None} \cup {Some(u) : u \in UserIds \ DOMAIN users_db}}

\* the client keeps a token it is given while it has room for one
Keep(token, user_id) ==
    IF Cardinality(issued) < MaxTokens
    THEN issued \cup {[token |-> token, at |-> now, user_id |-> user_id]}
    ELSE issued

(***************************************************************************)
(* Identity Service: passwords, emails, responses.                         *)
(***************************************************************************)
Salts == {"salt1", "salt2"}

\* bcrypt reads no more than the first 72 bytes of a password
BCRYPT_MAX == 72

Trunc72(password) ==
    IF Len(password) > BCRYPT_MAX THEN SubSeq(password, 1, BCRYPT_MAX) ELSE password

\* bcrypt.hashpw(password, salt): the salt is part of the hash, and so is
\* the password as far as bcrypt reads it
hashpw(password, salt) == [salt |-> salt, digest |-> <<salt, Trunc72(password)>>]

\* whether bcrypt raises on the password: never on one of up to 72 bytes;
\* on a longer one bcrypt 5 raises a ValueError (the handler then answers
\* 500), and the releases before it go on with the truncated password
bcrypt_raises(password) == IF Len(password) > BCRYPT_MAX THEN BOOLEAN ELSE {FALSE}


\* verify_password hashing the password again with a salt of its own
\* (bcrypt.hashpw(password, bcrypt.gensalt()) == hashed)
verify_password_resalted(password, hashed) == hashpw(password, "salt0") = hashed

\* bcrypt.checkpw(password, hashed)
verify_password(password, hashed) == hashpw(password, hashed.salt) = hashed

Lower(s) == IF s = "X.COM" THEN "x.com" ELSE s

\* pydantic EmailStr: the validated value has its domain in lower case
EmailStr(email) == [local |-> email.local, domain |-> Lower(email.domain)]

UserResponse(user) ==
    [id |-> user.id, email |-> user.email, first_name |-> user.first_name,
     last_name |-> user.last_name, phone |-> user.phone,
     created_at |-> user.created_at, is_active |-> user.is_active]

\* a response: the status line, and the fields of TokenResponse, of
\* UserResponse and of the cart handlers' bodies that it carries
Response(op, status, detail, token, user, cart_items, items) ==
    [op |-> op, status |-> status, detail |-> detail, access_token |-> token,
     user |-> user, cart_items |-> cart_items, items |-> items]

AuthResponse(op, status, detail, token, user) ==
    Response(op, status, detail, token, user, None, <<>>)

HTTPException(op, status, detail) == AuthResponse(op, status, detail, None, None)

NoResponse == AuthResponse("none", 0, "", None, None)

\* what the framework answers when a handler raises anything else
InternalServerError(op) == HTTPException(op, 500, "Internal Server Error")

\* uuid.uuid4(): an id no stored user has
uuid4_user == CHOOSE u \in UserIds : u \notin DOMAIN users_db

\* verify_token of the Identity Service: the subject, or a 401
verify_token(credentials, t, legacy) ==
    LET payload == jwt_decode(The(credentials), SECRET_KEY, t, legacy)
    IN  IF credentials = None THEN [status |-> 403, user_id |-> None]
        ELSE IF payload = None THEN [status |-> 401, user_id |-> None]
        ELSE IF The(payload).sub = None THEN [status |-> 401, user_id |-> None]
        ELSE [status |-> 200, user_id |-> The(payload).sub]

\* get_current_user of the Identity Service: the stored user, or a 401
get_current_user(credentials, t, legacy) ==
    LET v == verify_token(credentials, t, legacy)
    IN  IF v.status # 200
        THEN [status |-> v.status,
              detail |-> IF v.status = 403 THEN "Not authenticated"
                         ELSE "Invalid authentication credentials",
              user |-> None]
        ELSE IF The(v.user_id) \notin DOMAIN users_db
        THEN [status |-> 401, detail |-> "User not found", user |-> None]
        ELSE [status |-> 200, detail |-> "", user |-> Some(users_db[The(v.user_id)])]

\* register_user without the scan
email_taken_never(email) == FALSE

\* the scan of users_db.values() for the email
email_taken(email) == \E u \in DOMAIN users_db : users_db[u].email = email

register_user(email, password, first_name, last_name, phone, salt) ==
    LET user_id == uuid4_user
        new_user == [id |-> user_id, email |-> EmailStr(email),
                     password |-> hashpw(password, salt),
                     first_name |-> first_name, last_name |-> last_name,
                     phone |-> phone, created_at |-> now, is_active |-> TRUE]
        access_token == create_access_token(
            Some(user_id), Some(timedelta_minutes(ACCESS_TOKEN_EXPIRE_MINUTES)), now)
    IN  /\ UNCHANGED <<now, cartVars>>
        /\ IF Len(password) < 8
           THEN /\ resp' = HTTPException("register", 422, "validation")
                /\ UNCHANGED <<users_db, issued>>
           ELSE IF email_taken(EmailStr(email))
           THEN /\ resp' = HTTPException("register", 400, "Email already registered")
                /\ UNCHANGED <<users_db, issued>>
           ELSE \E raises \in bcrypt_raises(password) :
                IF raises
                THEN /\ resp' = InternalServerError("register")
                     /\ UNCHANGED <<users_db, issued>>
                ELSE /\ DOMAIN users_db # UserIds
                     /\ users_db' = [u \in DOMAIN users_db \cup {user_id} |->
                                        IF u = user_id THEN new_user ELSE users_db[u]]
                     /\ issued' = Keep(access_token, user_id)
                     /\ resp' = AuthResponse("register", 200, "", Some(access_token),
                                                  Some(UserResponse(new_user)))

\* the first user of users_db.values() with the email (insertion order)
find_by_email(email) ==
    LET hits == {u \in DOMAIN users_db : users_db[u].email = email}
    IN  IF hits = {} THEN None
        ELSE Some(users_db[CHOOSE u \in hits :
                     \A w \in hits : users_db[u].created_at <= users_db[w].created_at])

login_user(email, password) ==
    LET user == find_by_email(EmailStr(email))
        access_token == create_access_token(
            Some(The(user).id), Some(timedelta_minutes(ACCESS_TOKEN_EXPIRE_MINUTES)), now)
    IN  /\ UNCHANGED <<now, users_db, cartVars>>
        /\ \E raises \in IF user = None THEN {FALSE} ELSE bcrypt_raises(password) :
           IF raises
           THEN /\ resp' = InternalServerError("login")
                /\ UNCHANGED issued
           ELSE IF user = None \/ ~verify_password(password, The(user).password)
           THEN /\ resp' = HTTPException("login", 401, "Incorrect email or password")
                /\ UNCHANGED issued
           ELSE IF ~The(user).is_active
           THEN /\ resp' = HTTPException("login", 400, "Inactive user")
                /\ UNCHANGED issued
           ELSE /\ issued' = Keep(access_token, The(user).id)
                /\ resp' = AuthResponse("login", 200, "", Some(access_token),
                                             Some(UserResponse(The(user))))

get_current_user_profile(credentials, legacy) ==
    LET cur == get_current_user(credentials, now, legacy)
    IN  /\ UNCHANGED <<now, users_db, issued, cartVars>>
        /\ IF cur.status # 200
           THEN resp' = HTTPException("me", cur.status, cur.detail)
           ELSE resp' = AuthResponse("me", 200, "", None,
                                          Some(UserResponse(The(cur.user))))

\* update_user_profile storing the phone of the request even when it has none
update_user_profile_overwrites(credentials, legacy, first_name, last_name, phone) ==
    LET cur == get_current_user(credentials, now, legacy)
        user_id == The(cur.user).id
        updated_user ==
            [users_db[user_id] EXCEPT
                !.first_name = IF first_name # None THEN The(first_name) ELSE @,
                !.last_name = IF last_name # None THEN The(last_name) ELSE @,
                !.phone = phone]
    IN  /\ UNCHANGED <<now, issued, cartVars>>
        /\ IF cur.status # 200
           THEN /\ resp' = HTTPException("update", cur.status, cur.detail)
                /\ UNCHANGED users_db
           ELSE /\ users_db' = [users_db EXCEPT ![user_id] = updated_user]
                /\ resp' = AuthResponse("update", 200, "", None,
                                             Some(UserResponse(updated_user)))

update_user_profile(credentials, legacy, first_name, last_name, phone) ==
    LET cur == get_current_user(credentials, now, legacy)
        user_id == The(cur.user).id
        updated_user ==
            [users_db[user_id] EXCEPT
                !.first_name = IF first_name # None THEN The(first_name) ELSE @,
                !.last_name = IF last_name # None THEN The(last_name) ELSE @,
                !.phone = IF phone # None THEN phone ELSE @]
    IN  /\ UNCHANGED <<now, issued, cartVars>>
        /\ IF cur.status # 200
           THEN /\ resp' = HTTPException("update", cur.status, cur.detail)
                /\ UNCHANGED users_db
           ELSE /\ users_db' = [users_db EXCEPT ![user_id] = updated_user]
                /\ resp' = AuthResponse("update", 200, "", None,
                                             Some(UserResponse(updated_user)))

change_password(credentials, legacy, current_password, new_password, salt) ==
    LET cur == get_current_user(credentials, now, legacy)
        user_id == The(cur.user).id
    IN  /\ UNCHANGED <<now, issued, cartVars>>
        /\ IF cur.status # 200
           THEN /\ resp' = HTTPException("change-password", cur.status, cur.detail)
                /\ UNCHANGED users_db
           ELSE IF Len(new_password) < 8
           THEN /\ resp' = HTTPException("change-password", 422, "validation")
                /\ UNCHANGED users_db
           ELSE \E raises \in bcrypt_raises(current_password)
                                  \cup bcrypt_raises(new_password) :
                IF raises /\ Len(current_password) > BCRYPT_MAX
                THEN /\ resp' = InternalServerError("change-password")
                     /\ UNCHANGED users_db
                ELSE IF ~verify_password(current_password, The(cur.user).password)
                THEN /\ resp' = HTTPException("change-password", 400,
                                                   "Incorrect current password")
                     /\ UNCHANGED users_db
                ELSE IF raises /\ Len(new_password) > BCRYPT_MAX
                THEN /\ resp' = InternalServerError("change-password")
                     /\ UNCHANGED users_db
                ELSE /\ users_db' = [users_db EXCEPT
                                        ![user_id].password = hashpw(new_password, salt)]
                     /\ resp' = AuthResponse("change-password", 200,
                                                  "Password changed successfully",
                                                  None, None)

\* logout_user marking the account inactive
logout_user_deactivates(credentials, legacy) ==
    LET cur == get_current_user(credentials, now, legacy)
    IN  /\ UNCHANGED <<now, issued, cartVars>>
        /\ IF cur.status # 200
           THEN /\ resp' = HTTPException("logout", cur.status, cur.detail)
                /\ UNCHANGED users_db
           ELSE /\ users_db' = [users_db EXCEPT ![The(cur.user).id].is_active = FALSE]
                /\ resp' = AuthResponse("logout", 200, "Logged out successfully",
                                             None, None)

\* logout_user dropping the account with the session
logout_user_deletes(credentials, legacy) ==
    LET cur == get_current_user(credentials, now, legacy)
    IN  /\ UNCHANGED <<now, issued, cartVars>>
        /\ IF cur.status # 200
           THEN /\ resp' = HTTPException("logout", cur.status, cur.detail)
                /\ UNCHANGED users_db
           ELSE /\ users_db' = [u \in DOMAIN users_db \ {The(cur.user).id} |->
                                   users_db[u]]
                /\ resp' = AuthResponse("logout", 200, "Logged out successfully",
                                             None, None)

logout_user(credentials, legacy) ==
    LET cur == get_current_user(credentials, now, legacy)
    IN  /\ UNCHANGED <<now, users_db, issued, cartVars>>
        /\ IF cur.status # 200
           THEN resp' = HTTPException("logout", cur.status, cur.detail)
           ELSE resp' = AuthResponse("logout", 200, "Logged out successfully",
                                          None, None)

(***************************************************************************)
(* Catalog/Cart Service: resolution of the caller.  A request is first     *)
(* verified locally (verify_token); with a subject in hand the service     *)
(* awaits GET /auth/me of the Identity Service (get_current_user), and     *)
(* only then does the handler body run.  The body has no await: it is one  *)
(* step of the event loop.                                                 *)
(***************************************************************************)
products_db == 1 .. 6

\* a request being handled: how far it is, the Authorization header it
\* came with, and the values of its two dependencies
Request(stage, credentials, user_id, current_user) ==
    [stage |-> stage, credentials |-> credentials,
     user_id |-> user_id, current_user |-> current_user]

Idle == Request("idle", None, None, None)

\* backend_verify_token reading the payload without checking the signature
backend_verify_token_unverified(credentials, t, legacy) ==
    IF credentials = None \/ The(credentials).segments # 3 THEN None
    ELSE The(credentials).sub

\* backend_verify_token falling back on the token of the last login
backend_verify_token_cached(credentials, t, legacy) ==
    LET used == IF credentials = None /\ issued # {}
                THEN Some((CHOOSE i \in issued : TRUE).token)
                ELSE credentials
        payload == jwt_decode(The(used), JWT_SECRET_KEY, t, legacy)
    IN  IF used = None THEN None
        ELSE IF payload = None THEN None
        ELSE The(payload).sub

\* verify_token of the Catalog/Cart Service: the subject, or None
backend_verify_token(credentials, t, legacy) ==
    LET payload == jwt_decode(The(credentials), JWT_SECRET_KEY, t, legacy)
    IN  IF credentials = None THEN None
        ELSE IF payload = None THEN None
        ELSE The(payload).sub

\* the bearer token of the identity-confirmation call
confirmation_token(user_id) == jwt_encode(user_id, None, JWT_SECRET_KEY)

\* a request arrives: Depends(verify_token), then get_current_user up to
\* its await
receive(r, credentials, legacy) ==
    LET user_id == backend_verify_token(credentials, now, legacy)
    IN  /\ req[r].stage = "idle"
        /\ req' = [req EXCEPT ![r] =
                      IF user_id = None
                      THEN Request("ready", credentials, None, None)
                      ELSE Request("awaiting", credentials, user_id, None)]
        /\ UNCHANGED <<now, authVars, carts_db, user_carts_db, uuid_ctr, resp>>

\* get_current_user taking the subject of the token for the user, without
\* the call
backend_get_current_user_trusting(r, legacy) ==
    /\ req[r].stage = "awaiting"
    /\ req' = [req EXCEPT ![r].stage = "ready",
                          ![r].current_user = Some([id |-> The(req[r].user_id)])]
    /\ UNCHANGED <<now, authVars, carts_db, user_carts_db, uuid_ctr, resp>>

\* GET /auth/me answers: response.json() on a 200, None on anything else
backend_get_current_user(r, legacy) ==
    LET cur == get_current_user(Some(confirmation_token(req[r].user_id)), now, legacy)
    IN  /\ req[r].stage = "awaiting"
        /\ req' = [req EXCEPT ![r].stage = "ready",
                              ![r].current_user =
                                  IF cur.status = 200
                                  THEN Some(UserResponse(The(cur.user)))
                                  ELSE None]
        /\ UNCHANGED <<now, authVars, carts_db, user_carts_db, uuid_ctr, resp>>

\* the exception of the call reaching the client as a 503
backend_get_current_user_raises(r) ==
    /\ req[r].stage = "awaiting"
    /\ req' = [req EXCEPT ![r] = Idle]
    /\ resp' = AuthResponse("confirm", 503, "Auth service unavailable", None, None)
    /\ UNCHANGED <<now, authVars, carts_db, user_carts_db, uuid_ctr>>

\* the call raises (connection refused, timeout, ...): except Exception: pass
backend_get_current_user_fails(r) ==
    /\ req[r].stage = "awaiting"
    /\ req' = [req EXCEPT ![r].stage = "ready", ![r].current_user = None]
    /\ UNCHANGED <<now, authVars, carts_db, user_carts_db, uuid_ctr, resp>>

(***************************************************************************)
(* Catalog/Cart Service: the carts.  A dict is a function on the keys it   *)
(* holds; a list is a sequence.                                            *)
(***************************************************************************)
CartItem(id, product_id, quantity, added_at) ==
    [id |-> id, product_id |-> product_id, quantity |-> quantity,
     added_at |-> added_at]

CartResponse(op, status, detail, cart_items, items) ==
    Response(op, status, detail, None, None, cart_items, items)

\* d[key] = value
Put(d, key, value) ==
    [k \in DOMAIN d \cup {key} |-> IF k = key THEN value ELSE d[k]]

\* d.get(key, [])
Get(d, key) == IF key \in DOMAIN d THEN d[key] ELSE <<>>

\* next((i for i in cart if ...), None), as the index of the item: the
\* first of the indexes whose items qualify
First(hits) ==
    IF hits = {} THEN None ELSE Some(CHOOSE i \in hits : \A j \in hits : i <= j)

\* list.pop() for list.remove(x)
list_remove_last(cart, x) == SubSeq(cart, 1, Len(cart) - 1)

\* list.remove(x): the list without its first element equal to x
list_remove(cart, x) ==
    LET i == The(First({n \in DOMAIN cart : cart[n] = x}))
    IN  [j \in 1 .. Len(cart) - 1 |-> IF j < i THEN cart[j] ELSE cart[j + 1]]

\* the handlers never taking the "if current_user" branch
Authenticated_never(r) == FALSE

\* the handlers keeping the carts of users in the table of the sessions
Table_shared(r) == carts_db

\* which table and which key the handlers use
Authenticated(r) == req[r].current_user # None
CartKey(r, session_id) ==
    IF Authenticated(r) THEN The(req[r].current_user).id ELSE session_id
Table(r) == IF Authenticated(r) THEN user_carts_db ELSE carts_db

\* the handler stores table t for the request and answers
Finish(r, t, response) ==
    /\ req' = [req EXCEPT ![r] = Idle]
    /\ resp' = response
    /\ IF Authenticated(r)
       THEN user_carts_db' = t /\ UNCHANGED carts_db
       ELSE carts_db' = t /\ UNCHANGED user_carts_db
    /\ UNCHANGED <<now, authVars>>

\* add_item without the search for an existing entry
add_item_appends(cart, product_id, quantity, new_id, t) ==
    Append(cart, CartItem(new_id, product_id, quantity, t))

\* add_item with "=" for "+="
add_item_overwrites(cart, product_id, quantity, new_id, t) ==
    LET existing_item == First({n \in DOMAIN cart : cart[n].product_id = product_id})
    IN  IF existing_item # None
        THEN [cart EXCEPT ![The(existing_item)].quantity = quantity]
        ELSE Append(cart, CartItem(new_id, product_id, quantity, t))

\* add_item taking the existing entry out and appending it anew
add_item_moves(cart, product_id, quantity, new_id, t) ==
    LET existing_item == First({n \in DOMAIN cart : cart[n].product_id = product_id})
    IN  IF existing_item # None
        THEN Append(list_remove(cart, cart[The(existing_item)]),
                    [cart[The(existing_item)] EXCEPT !.quantity = @ + quantity])
        ELSE Append(cart, CartItem(new_id, product_id, quantity, t))

\* add_to_cart from "Check if item already exists in cart" on
add_item(cart, product_id, quantity, new_id, t) ==
    LET existing_item == First({n \in DOMAIN cart : cart[n].product_id = product_id})
    IN  IF existing_item # None
        THEN [cart EXCEPT ![The(existing_item)].quantity = @ + quantity]
        ELSE Append(cart, CartItem(new_id, product_id, quantity, t))

\* add_to_cart going on without the product
find_product_unchecked(product_id) == Some(product_id)

\* next((p for p in products_db if p["id"] == item.product_id), None)
find_product(product_id) ==
    IF product_id \in products_db THEN Some(product_id) ELSE None

\* add_to_cart choosing (and creating) the cart before it looks for the
\* product
add_to_cart_creates_first(r, session_id, product_id, quantity) ==
    LET key == CartKey(r, session_id)
        table == IF key \in DOMAIN Table(r) THEN Table(r) ELSE Put(Table(r), key, <<>>)
        cart == add_item(table[key], product_id, quantity, uuid_ctr + 1, now)
        fresh == Len(cart) > Len(table[key])
    IN  /\ req[r].stage = "ready"
        /\ IF quantity < 1
           THEN /\ Finish(r, Table(r), CartResponse("add", 422, "validation", None, <<>>))
                /\ UNCHANGED uuid_ctr
           ELSE IF find_product(product_id) = None
           THEN /\ Finish(r, table,
                          CartResponse("add", 404, "Product not found", None, <<>>))
                /\ UNCHANGED uuid_ctr
           ELSE /\ fresh => uuid_ctr < MaxItems
                /\ \A i \in 1 .. Len(cart) : cart[i].quantity <= MaxQty
                /\ uuid_ctr' = IF fresh THEN uuid_ctr + 1 ELSE uuid_ctr
                /\ Finish(r, Put(table, key, cart),
                          CartResponse("add", 200, "Item added to cart",
                                       Some(Len(cart)), <<>>))

add_to_cart(r, session_id, product_id, quantity) ==
    LET key == CartKey(r, session_id)
        table == IF key \in DOMAIN Table(r) THEN Table(r) ELSE Put(Table(r), key, <<>>)
        cart == add_item(table[key], product_id, quantity, uuid_ctr + 1, now)
        fresh == Len(cart) > Len(table[key])
    IN  /\ req[r].stage = "ready"
        /\ IF quantity < 1
           THEN /\ Finish(r, Table(r), CartResponse("add", 422, "validation", None, <<>>))
                /\ UNCHANGED uuid_ctr
           ELSE IF find_product(product_id) = None
           THEN /\ Finish(r, Table(r),
                          CartResponse("add", 404, "Product not found", None, <<>>))
                /\ UNCHANGED uuid_ctr
           ELSE /\ fresh => uuid_ctr < MaxItems
                /\ \A i \in 1 .. Len(cart) : cart[i].quantity <= MaxQty
                /\ uuid_ctr' = IF fresh THEN uuid_ctr + 1 ELSE uuid_ctr
                /\ Finish(r, Put(table, key, cart),
                          CartResponse("add", 200, "Item added to cart",
                                       Some(Len(cart)), <<>>))

get_cart(r, session_id) ==
    /\ req[r].stage = "ready"
    /\ UNCHANGED uuid_ctr
    /\ Finish(r, Table(r),
              CartResponse("get", 200, "", None, Get(Table(r), CartKey(r, session_id))))

remove_from_cart(r, session_id, item_id) ==
    LET key == CartKey(r, session_id)
        cart == Table(r)[key]
        item_to_remove == First({n \in DOMAIN cart : cart[n].id = item_id})
        left == list_remove(cart, cart[The(item_to_remove)])
    IN  /\ req[r].stage = "ready"
        /\ UNCHANGED uuid_ctr
        /\ IF key \notin DOMAIN Table(r)
           THEN Finish(r, Table(r),
                       CartResponse("remove", 404, "Cart not found", None, <<>>))
           ELSE IF item_to_remove = None
           THEN Finish(r, Table(r),
                       CartResponse("remove", 404, "Item not found in cart", None, <<>>))
           ELSE Finish(r, Put(Table(r), key, left),
                       CartResponse("remove", 200, "Item removed from cart",
                                    Some(Len(left)), <<>>))

\* the update leaving the entry in the cart whatever the quantity
set_quantity_keeps(cart, i, quantity) == [cart EXCEPT ![i].quantity = quantity]

\* item["quantity"] += quantity for item["quantity"] = quantity
set_quantity_adds(cart, i, quantity) ==
    IF quantity <= 0
    THEN list_remove(cart, cart[i])
    ELSE [cart EXCEPT ![i].quantity = @ + quantity]

\* if quantity <= 0: cart.remove(item); else: item["quantity"] = quantity
set_quantity(cart, i, quantity) ==
    IF quantity <= 0
    THEN list_remove(cart, cart[i])
    ELSE [cart EXCEPT ![i].quantity = quantity]

update_cart_item(r, session_id, item_id, quantity) ==
    LET key == CartKey(r, session_id)
        cart == Table(r)[key]
        item == First({n \in DOMAIN cart : cart[n].id = item_id})
    IN  /\ req[r].stage = "ready"
        /\ UNCHANGED uuid_ctr
        /\ IF quantity < 0
           THEN Finish(r, Table(r),
                       CartResponse("update", 422, "validation", None, <<>>))
           ELSE IF key \notin DOMAIN Table(r)
           THEN Finish(r, Table(r),
                       CartResponse("update", 404, "Cart not found", None, <<>>))
           ELSE IF item = None
           THEN Finish(r, Table(r),
                       CartResponse("update", 404, "Item not found in cart", None, <<>>))
           ELSE Finish(r, Put(Table(r), key, set_quantity(cart, The(item), quantity)),
                       CartResponse("update", 200,
                                    IF quantity <= 0 THEN "Item removed from cart"
                                    ELSE "Item quantity updated",
                                    None, <<>>))

\* clear_cart emptying every cart of the table
clear_cart_all(r, session_id) ==
    /\ req[r].stage = "ready"
    /\ UNCHANGED uuid_ctr
    /\ Finish(r, [k \in DOMAIN Table(r) |-> <<>>],
              CartResponse("clear", 200, "Cart cleared", None, <<>>))

\* clear_cart with "del table[key]" for "table[key] = []"
clear_cart_deletes(r, session_id) ==
    LET key == CartKey(r, session_id)
    IN  /\ req[r].stage = "ready"
        /\ UNCHANGED uuid_ctr
        /\ Finish(r, [k \in DOMAIN Table(r) \ {key} |-> Table(r)[k]],
                  CartResponse("clear", 200, "Cart cleared", None, <<>>))

\* clear_cart refusing a key that was never initialised, as the removal does
clear_cart_strict(r, session_id) ==
    LET key == CartKey(r, session_id)
    IN  /\ req[r].stage = "ready"
        /\ UNCHANGED uuid_ctr
        /\ IF key \in DOMAIN Table(r)
           THEN Finish(r, Put(Table(r), key, <<>>),
                       CartResponse("clear", 200, "Cart cleared", None, <<>>))
           ELSE Finish(r, Table(r),
                       CartResponse("clear", 404, "Cart not found", None, <<>>))

clear_cart(r, session_id) ==
    LET key == CartKey(r, session_id)
    IN  /\ req[r].stage = "ready"
        /\ UNCHANGED uuid_ctr
        /\ Finish(r, IF key \in DOMAIN Table(r) THEN Put(Table(r), key, <<>>)
                     ELSE Table(r),
                  CartResponse("clear", 200, "Cart cleared", None, <<>>))

\* GET /: the JSON object the handler returns
root ==
    /\ resp' = Response("root", 200, "", None, None, None, <<>>) @@
                   [body |-> [message |-> "Welcome to Luxe Jewelry Store API",
                              version |-> "1.1.0",
                              feature |-> "api-improvements"]]
    /\ UNCHANGED <<now, authVars, cartVars>>

(***************************************************************************)
(* The clock.  It is observed at the start and around the expiry of the    *)
(* tokens issued at the start.                                             *)
(***************************************************************************)
Lifetime == timedelta_minutes(ACCESS_TOKEN_EXPIRE_MINUTES)

TimePoints ==
    (0 .. MaxEarly) \cup
    ((Lifetime - Window) .. (Lifetime + MaxEarly + TicksPerSecond))

Tick == /\ \E t \in TimePoints : t > now /\ now' = t
        /\ UNCHANGED <<authVars, cartVars, resp>>

(***************************************************************************)
(* Initial state: both processes just started.                             *)
(***************************************************************************)
Init ==
    /\ now = 0
    /\ users_db = <<>>
    /\ issued = {}
    /\ carts_db = <<>>
    /\ user_carts_db = <<>>
    /\ uuid_ctr = 0
    /\ req = [r \in ReqIds |-> Idle]
    /\ resp = NoResponse

(***************************************************************************)
(* The Identity Service on its own.                                        *)
(***************************************************************************)
Emails == {[local |-> "a", domain |-> "x.com"],
           [local |-> "a", domain |-> "X.COM"],
           [local |-> "b", domain |-> "x.com"]}
NewPasswords == {"Secur3Pass!", "short"}
Passwords == {"Secur3Pass!", "0therPass!"}

People == {[first_name |-> "John", last_name |-> "Doe", phone |-> None],
           [first_name |-> "Jane", last_name |-> "Roe",
            phone |-> Some("+1-555-123-4567")]}

OneEmail == {[local |-> "a", domain |-> "x.com"]}
TwoEmails == {e \in Emails : e.domain = "x.com"}

Register ==
    \E email \in Emails, password \in NewPasswords, salt \in Salts, p \in People :
        register_user(email, password, p.first_name, p.last_name, p.phone, salt)

Login == \E email \in Emails, password \in Passwords : login_user(email, password)

GetProfile ==
    \E credentials \in Credentials, legacy \in BOOLEAN :
        get_current_user_profile(credentials, legacy)

NextAuth == Tick \/ Register \/ Login \/ GetProfile

SpecAuth == Init /\ [][NextAuth]_vars

(***************************************************************************)
(* The Identity Service with the accounts in use: profiles are updated and *)
(* passwords changed, some of them longer than bcrypt reads.  The clock    *)
(* stands still.                                                           *)
(***************************************************************************)
Prefix72 == "012345678901234567890123456789012345678901234567890123456789012345678901"
LongA == Prefix72 \o "a"
LongB == Prefix72 \o "b"

UserPasswords == {"Secur3Pass!", LongA}
TriedPasswords == {"Secur3Pass!", "0therPass!", LongA, LongB}
ChosenPasswords == {"0therPass!", LongB, "short"}

\* the Authorization header of a client of the Identity Service
Bearer == {Some(k) : k \in Held \cup {Garbage}}

RegisterUser ==
    \E email \in TwoEmails, password \in UserPasswords :
        register_user(email, password, "John", "Doe", None, "salt1")

LoginUser ==
    \E email \in TwoEmails, password \in TriedPasswords : login_user(email, password)

\* with the clock at a stand the two expiry checks of PyJWT agree
UpdateProfile ==
    \E credentials \in Bearer, legacy \in {FALSE},
       first_name \in {None, Some("Jane")}, last_name \in {None, Some("Roe")},
       phone \in {None, Some("+1-555-123-4567")} :
        update_user_profile(credentials, legacy, first_name, last_name, phone)

ChangePassword ==
    \E credentials \in Bearer, legacy \in {FALSE},
       current_password \in TriedPasswords, new_password \in ChosenPasswords :
        change_password(credentials, legacy, current_password, new_password, "salt2")

Logout ==
    \E credentials \in Bearer, legacy \in {FALSE} : logout_user(credentials, legacy)

NextUsers == RegisterUser \/ LoginUser \/ UpdateProfile \/ ChangePassword \/ Logout

SpecUsers == Init /\ [][NextUsers]_vars

(***************************************************************************)
(* Both services with their clients.  R: the requests the Catalog/Cart     *)
(* Service handles at a time, S: the session ids callers supply, E: the    *)
(* emails people sign up with, B: the tokens callers make up, P: the       *)
(* product ids they ask for.                                               *)
(***************************************************************************)
ProductIds == {1, 2, 7}
ItemIds == 1 .. MaxItems

SignUp(E) ==
    \E email \in E : register_user(email, "Secur3Pass!", "John", "Doe", None, "salt1")

SignIn(E) == \E email \in E : login_user(email, "Secur3Pass!")

Receive(R, B) ==
    \E r \in R, credentials \in {None} \cup {Some(k) : k \in Held \cup B},
       legacy \in BOOLEAN :
        receive(r, credentials, legacy)

Confirm(R) == \E r \in R, legacy \in BOOLEAN : backend_get_current_user(r, legacy)

ConfirmFails(R) == \E r \in R : backend_get_current_user_fails(r)

AddToCart(R, S, P) ==
    \E r \in R, session_id \in S, product_id \in P, quantity \in 0 .. MaxAddQty :
        add_to_cart(r, session_id, product_id, quantity)

GetCart(R, S) == \E r \in R, session_id \in S : get_cart(r, session_id)

RemoveFromCart(R, S) ==
    \E r \in R, session_id \in S, item_id \in ItemIds :
        remove_from_cart(r, session_id, item_id)

UpdateCartItem(R, S) ==
    \E r \in R, session_id \in S, item_id \in ItemIds, quantity \in -1 .. MaxAddQty :
        update_cart_item(r, session_id, item_id, quantity)

ClearCart(R, S) == \E r \in R, session_id \in S : clear_cart(r, session_id)

Shop(R, S, E, B, P) ==
    \/ SignUp(E) \/ SignIn(E)
    \/ Receive(R, B) \/ Confirm(R) \/ ConfirmFails(R)
    \/ AddToCart(R, S, P) \/ GetCart(R, S) \/ RemoveFromCart(R, S)
    \/ UpdateCartItem(R, S) \/ ClearCart(R, S)

\* one request at a time, every session id, one account
Next == Shop({1}, SessionIds, OneEmail, {Garbage} \cup Foreign, ProductIds)

Spec == Init /\ [][Next]_vars

\* one request at a time, with the clock passing the expiry of the tokens
\* issued at the start
Late == Lifetime + MaxEarly + TicksPerSecond

Later == /\ now < Late
         /\ now' = Late
         /\ UNCHANGED <<authVars, cartVars, resp>>

NextLate == Later \/ Shop({1}, SessionIds, OneEmail, BadTokens, {1, 7})

SpecLate == Init /\ [][NextLate]_vars

\* one request at a time, and the root endpoint
NextCatalog == root \/ Next

SpecCatalog == Init /\ [][NextCatalog]_vars

\* the Identity Service with all its operations, before and after the
\* expiry of the tokens issued at the start
NextUsersLate == Later \/ NextUsers

SpecUsersLate == Init /\ [][NextUsersLate]_vars

\* requests handled concurrently, on one session id and one account
NextConc == Shop(ReqIds, {1}, OneEmail, {}, ProductIds)

SpecConc == Init /\ [][NextConc]_vars

\* requests handled concurrently by the event loop: the confirmation call
\* of a request returns or fails in the end, and a handler that can run is
\* run in the end
Resolve(r) == Confirm({r}) \/ ConfirmFails({r})

Handle(r) ==
    \/ AddToCart({r}, {1}, {1, 7}) \/ GetCart({r}, {1})
    \/ RemoveFromCart({r}, {1}) \/ UpdateCartItem({r}, {1}) \/ ClearCart({r}, {1})

NextLive == Shop(ReqIds, {1}, OneEmail, {}, {1, 7})

SpecLive ==
    /\ Init /\ [][NextLive]_vars
    /\ \A r \in ReqIds : WF_vars(Resolve(r)) /\ WF_vars(Handle(r))

(***************************************************************************)
(* Properties.                                                             *)
(***************************************************************************)
AllCarts ==
    {carts_db[k] : k \in DOMAIN carts_db} \cup
    {user_carts_db[k] : k \in DOMAIN user_carts_db}

EntriesFor(cart, product_id) ==
    {i \in 1 .. Len(cart) : cart[i].product_id = product_id}

\* the cart a request resolves to, before and after a step of its handler
CartBefore(r, session_id) ==
    IF req[r].current_user # None
    THEN Get(user_carts_db, The(req[r].current_user).id)
    ELSE Get(carts_db, session_id)

CartAfter(r, session_id) ==
    IF req[r].current_user # None
    THEN Get(user_carts_db', The(req[r].current_user).id)
    ELSE Get(carts_db', session_id)

\* C1: in every reachable state, whatever the interleaving of the requests
\* on session carts and user carts, a cart holds at most one entry per
\* product_id.
C1_OneEntryPerProduct ==
    \A cart \in AllCarts : \A p \in ProductIds :
        Cardinality(EntriesFor(cart, p)) <= 1

\* a session cart whose entry has been added to again, a user cart with an
\* entry, and a request waiting for the Identity Service meanwhile
C1_Witness ==
    /\ \E r \in ReqIds : req[r].stage = "awaiting"
    /\ \E k \in DOMAIN carts_db : \E i \in 1 .. Len(carts_db[k]) :
           carts_db[k][i].quantity > MaxAddQty
    /\ \E k \in DOMAIN user_carts_db : user_carts_db[k] # <<>>

\* a step of the handler of request r, called with session_id
BodyStep(r, session_id) ==
    /\ req[r].stage = "ready"
    /\ req'[r].stage = "idle"
    /\ \/ /\ resp'.op = "add"
          /\ \E p \in ProductIds, q \in 0 .. MaxAddQty : add_to_cart(r, session_id, p, q)
       \/ /\ resp'.op = "get"
          /\ get_cart(r, session_id)
       \/ /\ resp'.op = "remove"
          /\ \E i \in ItemIds : remove_from_cart(r, session_id, i)
       \/ /\ resp'.op = "update"
          /\ \E i \in ItemIds, q \in -1 .. MaxAddQty :
                 update_cart_item(r, session_id, i, q)
       \/ /\ resp'.op = "clear"
          /\ clear_cart(r, session_id)

\* the step changes no cart but, at most, the one of a session id
OnlySessionCart(session_id) ==
    /\ user_carts_db' = user_carts_db
    /\ DOMAIN carts_db \subseteq DOMAIN carts_db'
    /\ DOMAIN carts_db' \subseteq DOMAIN carts_db \cup {session_id}
    /\ \A k \in DOMAIN carts_db \ {session_id} : carts_db'[k] = carts_db[k]

\* the step changes no cart but, at most, the one of a user id
OnlyUserCart(user_id) ==
    /\ carts_db' = carts_db
    /\ DOMAIN user_carts_db \subseteq DOMAIN user_carts_db'
    /\ DOMAIN user_carts_db' \subseteq DOMAIN user_carts_db \cup {user_id}
    /\ \A k \in DOMAIN user_carts_db \ {user_id} : user_carts_db'[k] = user_carts_db[k]

\* what makes a token fail local verification at clock t: it is no JWT, its
\* signature is not the one the secret gives its payload, or its expiry
\* lies a full second back (expired for every release of PyJWT)
Malformed(k) == k.segments # 3
WrongSignature(k) == k.sig # HS256(JWT_SECRET_KEY, k.sub, k.exp)
Expired(k, t) == k.exp # None /\ (The(k.exp) + 1) * TicksPerSecond <= t
LocallyInvalid(k, t) == Malformed(k) \/ WrongSignature(k) \/ Expired(k, t)

\* a token is locally valid for sure: well formed, signed with the secret,
\* carrying a subject and, if an expiry, one still ahead
LocallyValid(k, t) ==
    /\ ~Malformed(k) /\ ~WrongSignature(k) /\ k.sub # None
    /\ k.exp # None => t < The(k.exp) * TicksPerSecond

\* request r has just been received
Received(r) == req[r].stage = "idle" /\ req'[r].stage # "idle"

\* C2: an addItem of a catalog product that the cart does not hold appends
\* one entry with the requested quantity; an addItem of a product the cart
\* holds adds the requested quantity to that entry and appends nothing.  So
\* addItem(p, q1) then addItem(p, q2) leave one entry for p, of quantity
\* q1 + q2.
C2_AddIncrements ==
    [][(resp'.op = "add" /\ resp'.status = 200) =>
       \A r \in ReqIds, s \in SessionIds, p \in ProductIds, q \in 1 .. MaxAddQty :
          (add_to_cart(r, s, p, q) /\ p \in products_db) =>
              LET before == CartBefore(r, s)
                  after == CartAfter(r, s)
                  old == EntriesFor(before, p)
              IN  IF old = {}
                  THEN /\ Len(after) = Len(before) + 1
                       /\ SubSeq(after, 1, Len(before)) = before
                       /\ after[Len(after)].product_id = p
                       /\ after[Len(after)].quantity = q
                  ELSE /\ Len(after) = Len(before)
                       /\ \A i \in 1 .. Len(before) :
                              after[i] = IF i \in old
                                         THEN [before[i] EXCEPT !.quantity = @ + q]
                                         ELSE before[i]
      ]_vars

\* an add has just answered for a cart of one entry, whose quantity only
\* two adds can have reached
C2_Witness ==
    /\ resp.op = "add" /\ resp.status = 200 /\ resp.cart_items = Some(1)
    /\ \E cart \in AllCarts :
           Len(cart) = 1 /\ cart[1].quantity = MaxAddQty + 1

\* C3: a request whose token fails local verification (wrong signature,
\* malformed, expired) is resolved as the same request without a token is:
\* at once, with no call to the Identity Service and no user; and its
\* handler then acts on the session cart of its session id alone.
C3_BadTokenIsNoToken ==
    [][\A r \in ReqIds :
          /\ (/\ Received(r)
              /\ req'[r].credentials # None
              /\ LocallyInvalid(The(req'[r].credentials), now))
             => /\ req'[r] = [Request("ready", None, None, None)
                                 EXCEPT !.credentials = req'[r].credentials]
                /\ UNCHANGED <<now, authVars, carts_db, user_carts_db, uuid_ctr, resp>>
          /\ (req[r].stage = "ready" /\ req[r].user_id = None)
             => \A s \in SessionIds : OnlySessionCart(s) \/ ~BodyStep(r, s)
      ]_vars

\* the clock is past the expiry of a token of a stored user, and a request
\* that came with it stands resolved without a user
C3_Witness ==
    \E r \in ReqIds, i \in issued :
        /\ req[r].stage = "ready"
        /\ req[r].credentials = Some(i.token)
        /\ Expired(i.token, now) /\ ~WrongSignature(i.token)
        /\ i.user_id \in DOMAIN users_db
        /\ req[r].user_id = None /\ req[r].current_user = None

\* C4: when the token is locally valid and the identity-confirmation call
\* fails (an exception, or an answer other than 200), the request goes on
\* without a user: nothing is answered at that step, and the handler then
\* acts on the session cart of its session id and answers as it does for
\* an anonymous caller (200, 404 or 422, never an error of the call).
C4_ConfirmationFailureIsAnonymous ==
    [][\A r \in ReqIds :
          /\ (req[r].stage = "awaiting" /\ req'[r] # req[r])
             => /\ req'[r].stage = "ready"
                /\ req'[r].current_user # None =>
                       /\ req[r].user_id \subseteq DOMAIN users_db
                       /\ The(req'[r].current_user).id = The(req[r].user_id)
                /\ UNCHANGED <<now, authVars, carts_db, user_carts_db, uuid_ctr, resp>>
          /\ (/\ req[r].stage = "ready"
              /\ req[r].user_id # None
              /\ req[r].current_user = None)
             => \A s \in SessionIds :
                    \/ OnlySessionCart(s) /\ resp'.status \in {200, 404, 422}
                    \/ ~BodyStep(r, s)
      ]_vars

\* the token of a stored user was locally valid, the call failed, and the
\* request stands resolved without a user
C4_Witness ==
    \E r \in ReqIds :
        /\ req[r].stage = "ready"
        /\ req[r].user_id # None /\ req[r].user_id \subseteq DOMAIN users_db
        /\ req[r].credentials # None
        /\ LocallyValid(The(req[r].credentials), now)
        /\ req[r].current_user = None

\* C5: the handler of a request resolved as authenticated reads and
\* changes the cart of the resolved user id alone: the session carts are
\* the same after it, whatever session id it was called with, and what
\* get_cart returns is the user's cart.
C5_AuthenticatedUsesUserCart ==
    [][\A r \in ReqIds :
          (req[r].stage = "ready" /\ req[r].current_user # None)
             => \A s \in SessionIds :
                    \/ /\ OnlyUserCart(The(req[r].current_user).id)
                       /\ resp'.op = "get" =>
                              resp'.items =
                                  Get(user_carts_db, The(req[r].current_user).id)
                    \/ ~BodyStep(r, s)
      ]_vars

\* an authenticated add has answered: the user's cart holds the entry and
\* no session cart was ever created
C5_Witness ==
    /\ resp.op = "add" /\ resp.status = 200
    /\ carts_db = <<>>
    /\ \E u \in DOMAIN user_carts_db : user_carts_db[u] # <<>>

\* C6: the resolution of a request depends on its own Authorization header
\* and on nothing an earlier request left behind.  Whatever came before, a
\* request without a token is resolved at once without a user, and its
\* handler reads and changes the session cart of its session id alone; a
\* request with a locally valid token is sent to the Identity Service with
\* the subject of that token; and the cart of a user changes only in a step
\* of the handler of a request whose own token names that user, so a later
\* request with the token finds the cart as the earlier ones left it.
C6_ResolvedPerRequest ==
    [][/\ \A r \in ReqIds :
             /\ (Received(r) /\ req'[r].credentials = None)
                => req'[r] = Request("ready", None, None, None)
             /\ (/\ Received(r)
                 /\ req'[r].credentials # None
                 /\ LocallyValid(The(req'[r].credentials), now))
                => req'[r] = Request("awaiting", req'[r].credentials,
                                     The(req'[r].credentials).sub, None)
             /\ (req[r].stage = "ready" /\ req[r].credentials = None)
                => \A s \in SessionIds :
                       \/ /\ OnlySessionCart(s)
                          /\ resp'.op = "get" => resp'.items = Get(carts_db, s)
                       \/ ~BodyStep(r, s)
       /\ \A u \in UserIds :
             Get(user_carts_db', u) # Get(user_carts_db, u)
                => \E r \in ReqIds :
                       /\ req[r].stage = "ready" /\ req'[r].stage = "idle"
                       /\ req[r].credentials # None
                       /\ ~WrongSignature(The(req[r].credentials))
                       /\ The(req[r].credentials).sub = Some(u)
      ]_vars

\* the user's cart got its entry first, a session cart got one from a
\* request without a token after that, and a request with a token stands
\* resolved as the user again
C6_Witness ==
    \E r \in ReqIds, u \in DOMAIN user_carts_db, s \in DOMAIN carts_db :
        /\ Len(user_carts_db[u]) = 1 /\ user_carts_db[u][1].id = 1
        /\ Len(carts_db[s]) = 1 /\ carts_db[s][1].id = 2
        /\ req[r].stage = "ready"
        /\ req[r].credentials # None
        /\ req[r].current_user # None /\ The(req[r].current_user).id = u

\* the "exp" claim of a token issued at clock t, in whole seconds
ExpOf(t) == timegm(t + Lifetime)

\* C7, as claimed: a token issued at t fails verification at any time later
\* than t + 30 minutes, and verifies, to the user it was issued for, at any
\* time before t + 30 minutes.
C7_ExpiresAtThirtyMinutes ==
    [][resp'.op = "me" =>
          \A i \in issued, legacy \in BOOLEAN :
              get_current_user_profile(Some(i.token), legacy) =>
                  /\ now > i.at + Lifetime => resp'.status = 401
                  /\ now < i.at + Lifetime =>
                         /\ resp'.status = 200
                         /\ The(resp'.user).id = i.user_id
      ]_vars

\* C7, amended: the expiry of a token issued at t is t + 30 minutes cut to
\* whole seconds.  Verification fails (401) from one second after that
\* expiry on, so at any time from t + 30 minutes + 1 second; it succeeds,
\* for the user the token was issued for, at any time before that expiry,
\* so at any time up to t + 30 minutes - 1 second.
C7_ExpiresWithinASecond ==
    [][resp'.op = "me" =>
          \A i \in issued, legacy \in BOOLEAN :
              get_current_user_profile(Some(i.token), legacy) =>
                  /\ now >= (ExpOf(i.at) + 1) * TicksPerSecond =>
                         /\ resp'.status = 401
                         /\ resp'.detail = "Invalid authentication credentials"
                  /\ now < ExpOf(i.at) * TicksPerSecond =>
                         /\ resp'.status = 200
                         /\ The(resp'.user).id = i.user_id
      ]_vars

\* the profile was refused with the token of a stored user in hand, issued
\* with a sub-second part and now more than a second past its expiry
C7_Witness ==
    /\ resp.op = "me" /\ resp.status = 401
    /\ resp.detail = "Invalid authentication credentials"
    /\ \E i \in issued :
           /\ i.user_id \in DOMAIN users_db
           /\ i.at % TicksPerSecond # 0
           /\ now >= (ExpOf(i.at) + 1) * TicksPerSecond

\* the tokens made so far for the stored users: those the clients keep,
\* the one of the last response, and those the Catalog/Cart Service made
\* for the identity-confirmation calls under way
Minted ==
    {[token |-> i.token, at |-> i.at] : i \in issued} \cup
    {[token |-> k, at |-> now] : k \in resp.access_token} \cup
    {[token |-> confirmation_token(req[r].user_id), at |-> now] :
        r \in {q \in ReqIds : /\ req[q].stage = "awaiting"
                              /\ req[q].user_id \subseteq DOMAIN users_db}}

\* C8: every token made anywhere in the system that the Identity Service's
\* verify_token accepts carries an expiry, and none is accepted more than
\* 30 minutes after it was made.
C8_EveryTokenExpires ==
    \A m \in Minted, legacy \in BOOLEAN :
        verify_token(Some(m.token), now, legacy).status = 200
            => /\ m.token.exp # None
               /\ now <= m.at + Lifetime

\* C9: a registration that succeeds stores, under a new user id, the
\* validated email and a hash of the password, and its token verifies to
\* that id; no later step changes a stored email or hash; and a login with
\* an email and a password that a stored user was registered with succeeds
\* with a token that verifies to the id of that user.
C9_RegisterThenLogin ==
    [][/\ \A u \in DOMAIN users_db :
             /\ u \in DOMAIN users_db'
             /\ users_db'[u].email = users_db[u].email
             /\ users_db'[u].password = users_db[u].password
       /\ (resp'.op = "register" /\ resp'.status = 200) =>
             \A e \in Emails, p \in NewPasswords, s \in Salts, n \in People :
                 register_user(e, p, n.first_name, n.last_name, n.phone, s) =>
                     LET u == The(resp'.user).id
                     IN  /\ u \notin DOMAIN users_db
                         /\ DOMAIN users_db' = DOMAIN users_db \cup {u}
                         /\ users_db'[u].id = u
                         /\ users_db'[u].email = EmailStr(e)
                         /\ users_db'[u].password = hashpw(p, s)
                         /\ users_db'[u].is_active
                         /\ \A legacy \in BOOLEAN :
                                verify_token(resp'.access_token, now, legacy)
                                    = [status |-> 200, user_id |-> Some(u)]
       /\ resp'.op = "login" =>
             \A e \in Emails, p \in Passwords :
                 login_user(e, p) =>
                     \A u \in DOMAIN users_db, s \in Salts :
                         (/\ users_db[u].email = EmailStr(e)
                          /\ users_db[u].password = hashpw(p, s))
                            => /\ resp'.status = 200
                               /\ The(resp'.user).id = u
                               /\ \A legacy \in BOOLEAN :
                                      verify_token(resp'.access_token, now, legacy)
                                          = [status |-> 200, user_id |-> Some(u)]
      ]_vars

\* the second of two registered users has just logged in
C9_Witness ==
    /\ resp.op = "login" /\ resp.status = 200
    /\ Cardinality(DOMAIN users_db) = 2
    /\ The(resp.user).id = 2

\* C10: register (its input validated) with an email that is exactly the
\* stored email of a user answers 400 "Email already registered" whatever
\* the password, names and phone, gives no token, and leaves users_db as
\* it was.
C10_DuplicateEmailRefused ==
    [][resp'.op = "register" =>
          \/ /\ resp'.status = 400
             /\ resp'.detail = "Email already registered"
             /\ resp'.access_token = None
             /\ users_db' = users_db
          \/ \A e \in {users_db[u].email : u \in DOMAIN users_db} \cap Emails,
                p \in {w \in NewPasswords : Len(w) >= 8},
                s \in Salts, n \in People :
                 ~register_user(e, p, n.first_name, n.last_name, n.phone, s)
      ]_vars

\* a registration has just been refused for its email while there was
\* room for another user
C10_Witness ==
    /\ resp.op = "register" /\ resp.status = 400
    /\ Cardinality(DOMAIN users_db) = 1

\* C11: in every reachable state of the Identity Service, however the
\* registration requests were interleaved (register_user has no await: a
\* request is one step of the event loop), no two stored users have the
\* same email and every user is stored under its own id.
C11_UsersUnique ==
    \A u \in DOMAIN users_db :
        /\ users_db[u].id = u
        /\ \A w \in DOMAIN users_db : users_db[u].email = users_db[w].email => u = w

\* two users are stored and one more registration, for an email in use,
\* has just been refused
C11_Witness ==
    /\ Cardinality(DOMAIN users_db) = 2
    /\ resp.op = "register" /\ resp.status = 400

\* C12: a login is refused with 401 "Incorrect email or password" both when
\* no stored user has the email and when a user has it and the password
\* does not match the stored hash of that user; it then gives no token and
\* changes nothing.
C12_LoginRefused ==
    [][resp'.op = "login" =>
          \A e \in TwoEmails, p \in TriedPasswords :
              \/ ~(\/ find_by_email(EmailStr(e)) = None
                   \/ ~verify_password(p, The(find_by_email(EmailStr(e))).password))
              \/ /\ resp' = HTTPException("login", 401, "Incorrect email or password")
                 /\ UNCHANGED <<users_db, issued>>
              \/ ~login_user(e, p)
      ]_vars

\* C14: a change of password with a current password that does not match
\* the stored hash is refused with 400 "Incorrect current password" and
\* leaves the hash as it was; any other change answers 200 and stores a
\* hash that the new password matches and that the old password, when it
\* is another one, does not match (login compares with verify_password, so
\* it then succeeds with the new password and is refused with the old).
C14_ChangePassword ==
    [][resp'.op = "change-password" =>
          \A credentials \in Bearer, c \in TriedPasswords,
             n \in {w \in ChosenPasswords : Len(w) >= 8} :
              \/ get_current_user(credentials, now, FALSE).status # 200
              \/ ~change_password(credentials, FALSE, c, n, "salt2")
              \/ LET u == The(get_current_user(credentials, now, FALSE).user).id
                 IN  IF ~verify_password(c, users_db[u].password)
                     THEN /\ resp'.status = 400
                          /\ resp'.detail = "Incorrect current password"
                          /\ users_db' = users_db
                     ELSE /\ resp'.status = 200
                          /\ verify_password(n, users_db'[u].password)
                          /\ c # n => ~verify_password(c, users_db'[u].password)
      ]_vars

\* C15: an update of the profile changes, of the user of the token, the
\* fields among first_name, last_name and phone that the request gives, to
\* the values it gives; the fields it does not give keep their values; the
\* id, email, password hash, created_at and is_active of that user and the
\* whole record of every other user stay as they were.
C15_UpdateTouchesGivenFields ==
    [][resp'.op = "update" =>
          \A credentials \in Bearer,
             f \in {None, Some("Jane")}, l \in {None, Some("Roe")},
             ph \in {None, Some("+1-555-123-4567")} :
              \/ ~update_user_profile(credentials, FALSE, f, l, ph)
              \/ IF get_current_user(credentials, now, FALSE).status # 200
                 THEN users_db' = users_db
                 ELSE LET u == The(get_current_user(credentials, now, FALSE).user).id
                          old == users_db[u]
                          new == users_db'[u]
                      IN  /\ DOMAIN users_db' = DOMAIN users_db
                          /\ \A w \in DOMAIN users_db \ {u} : users_db'[w] = users_db[w]
                          /\ new.first_name = IF f = None THEN old.first_name ELSE The(f)
                          /\ new.last_name = IF l = None THEN old.last_name ELSE The(l)
                          /\ new.phone = IF ph = None THEN old.phone ELSE ph
                          /\ new.id = old.id /\ new.email = old.email
                          /\ new.password = old.password
                          /\ new.created_at = old.created_at
                          /\ new.is_active = old.is_active
      ]_vars

\* with two users stored, one who had set a phone has just updated the
\* first name alone: last name and phone are as they were
C15_Witness ==
    /\ Cardinality(DOMAIN users_db) = 2
    /\ resp.op = "update" /\ resp.status = 200
    /\ \E u \in DOMAIN users_db :
           /\ The(resp.user).id = u
           /\ users_db[u].first_name = "Jane"
           /\ users_db[u].last_name = "Doe"
           /\ users_db[u].phone # None

\* the table a request resolves to, after a step of its handler
TableAfter(r) == IF Authenticated(r) THEN user_carts_db' ELSE carts_db'

\* the step changes no cart but, at most, the one the request resolves to
OnlyCartOf(r, session_id) ==
    /\ Authenticated(r) => carts_db' = carts_db
    /\ ~Authenticated(r) => user_carts_db' = user_carts_db
    /\ DOMAIN TableAfter(r) \subseteq DOMAIN Table(r) \cup {CartKey(r, session_id)}
    /\ \A k \in DOMAIN Table(r) \ {CartKey(r, session_id)} :
           k \in DOMAIN TableAfter(r) /\ TableAfter(r)[k] = Table(r)[k]

\* the indexes of the entries of a cart with an item id
EntriesWithId(cart, item_id) == {n \in DOMAIN cart : cart[n].id = item_id}

\* C16: an add of a product_id that is not in the catalog is refused with
\* 404 "Product not found", for a caller resolved as anonymous and for one
\* resolved as authenticated alike, and it changes no cart.
C16_UnknownProductRefused ==
    [][resp'.op = "add" =>
          \A r \in ReqIds, s \in SessionIds, p \in ProductIds \ products_db,
             q \in 1 .. MaxAddQty :
              \/ /\ resp'.status = 404
                 /\ resp'.detail = "Product not found"
                 /\ UNCHANGED <<carts_db, user_carts_db, uuid_ctr>>
              \/ ~add_to_cart(r, s, p, q)
      ]_vars

\* an add has just been refused for its product while a user has a cart
\* and no session has one: the caller was the user or anonymous
C16_Witness ==
    /\ resp.op = "add" /\ resp.status = 404 /\ resp.detail = "Product not found"
    /\ carts_db = <<>>
    /\ \E u \in DOMAIN user_carts_db : user_carts_db[u] # <<>>

\* C17: a removal is refused with 404 "Cart not found" exactly when the
\* key the request resolves to was never initialised (a key is initialised
\* by the first add that succeeds for it, and stays so); with 404 "Item not
\* found in cart" when the key is initialised and its cart has no entry
\* with the item id; otherwise it answers 200 and the cart is what it was
\* without that entry, the others in their order, and no other cart changes.
C17_RemoveExactlyThatEntry ==
    [][/\ DOMAIN carts_db \subseteq DOMAIN carts_db'
       /\ DOMAIN user_carts_db \subseteq DOMAIN user_carts_db'
       /\ (DOMAIN carts_db' # DOMAIN carts_db \/ DOMAIN user_carts_db' # DOMAIN user_carts_db)
             => resp'.op = "add" /\ resp'.status = 200
       /\ resp'.op = "remove" =>
             \A r \in ReqIds, s \in SessionIds, i \in ItemIds :
                 \/ ~remove_from_cart(r, s, i)
                 \/ LET key == CartKey(r, s)
                    IN  IF key \notin DOMAIN Table(r)
                        THEN /\ resp'.status = 404 /\ resp'.detail = "Cart not found"
                             /\ UNCHANGED <<carts_db, user_carts_db>>
                        ELSE IF EntriesWithId(Table(r)[key], i) = {}
                        THEN /\ resp'.status = 404
                             /\ resp'.detail = "Item not found in cart"
                             /\ UNCHANGED <<carts_db, user_carts_db>>
                        ELSE /\ resp'.status = 200
                             /\ OnlyCartOf(r, s)
                             /\ Len(TableAfter(r)[key]) = Len(Table(r)[key]) - 1
                             /\ TableAfter(r)[key] =
                                    SelectSeq(Table(r)[key], LAMBDA x : x.id # i)
      ]_vars

\* the first of the two entries of a cart has just been removed: the
\* second is what the cart holds
C17_Witness ==
    /\ resp.op = "remove" /\ resp.status = 200 /\ resp.cart_items = Some(1)
    /\ uuid_ctr = 2
    /\ \E cart \in AllCarts : Len(cart) = 1 /\ cart[1].id = 2

\* an item id is in no entry of a cart of the table
Gone(table, k, item_id) == EntriesWithId(table[k], item_id) = {}

\* C18: after an update with a quantity <= 0 has succeeded the entry is no
\* longer in the cart, and from then on every removal and every update on
\* that cart for that item id is refused with 404 "Item not found in cart";
\* likewise after a removal has succeeded.  Step by step: a successful
\* update with quantity <= 0, and a successful removal, leave no entry with
\* the item id; an item id that was issued and is in no entry of a cart is
\* in none ever after; and a removal or an update for an item id that is in
\* no entry of the initialised cart it resolves to is refused so.
C18_RemovedStaysRemoved ==
    [][/\ \A i \in 1 .. uuid_ctr :
             /\ \A k \in DOMAIN carts_db :
                    Gone(carts_db, k, i) => Gone(carts_db', k, i)
             /\ \A k \in DOMAIN user_carts_db :
                    Gone(user_carts_db, k, i) => Gone(user_carts_db', k, i)
       /\ resp'.op = "update" =>
             \A r \in ReqIds, s \in SessionIds, i \in ItemIds, q \in -1 .. MaxAddQty :
                 \/ ~update_cart_item(r, s, i, q)
                 \/ /\ (q <= 0 /\ resp'.status = 200) =>
                          /\ resp'.detail = "Item removed from cart"
                          /\ EntriesWithId(CartAfter(r, s), i) = {}
                    /\ (/\ q >= 0
                        /\ CartKey(r, s) \in DOMAIN Table(r)
                        /\ EntriesWithId(CartBefore(r, s), i) = {}) =>
                          /\ resp'.status = 404
                          /\ resp'.detail = "Item not found in cart"
                          /\ UNCHANGED <<carts_db, user_carts_db>>
       /\ resp'.op = "remove" =>
             \A r \in ReqIds, s \in SessionIds, i \in ItemIds :
                 \/ ~remove_from_cart(r, s, i)
                 \/ /\ resp'.status = 200 => EntriesWithId(CartAfter(r, s), i) = {}
                    /\ (/\ CartKey(r, s) \in DOMAIN Table(r)
                        /\ EntriesWithId(CartBefore(r, s), i) = {}) =>
                          /\ resp'.status = 404
                          /\ resp'.detail = "Item not found in cart"
                          /\ UNCHANGED <<carts_db, user_carts_db>>
      ]_vars

\* the one item ever added was taken out of its session cart, and a
\* removal on that cart has just been refused for want of the item
C18_Witness ==
    /\ resp.op = "remove" /\ resp.status = 404
    /\ resp.detail = "Item not found in cart"
    /\ uuid_ctr = 1
    /\ user_carts_db = <<>>
    /\ \E k \in DOMAIN carts_db : carts_db[k] = <<>>

\* C19: an update with a quantity > 0 for an entry of the cart answers 200
\* and sets that entry's quantity to exactly the quantity given (not added
\* to the old one); the entry keeps its id, its product_id and its
\* position, the other entries and the other carts are unchanged.  It is
\* refused with 404 "Cart not found" when the key was never initialised and
\* with 404 "Item not found in cart" when the cart has no such entry, as a
\* removal is.
C19_UpdateSetsQuantity ==
    [][resp'.op = "update" =>
          \A r \in ReqIds, s \in SessionIds, i \in ItemIds, q \in 1 .. MaxAddQty :
              \/ ~update_cart_item(r, s, i, q)
              \/ LET key == CartKey(r, s)
                 IN  IF key \notin DOMAIN Table(r)
                     THEN /\ resp'.status = 404 /\ resp'.detail = "Cart not found"
                          /\ UNCHANGED <<carts_db, user_carts_db>>
                     ELSE IF EntriesWithId(Table(r)[key], i) = {}
                     THEN /\ resp'.status = 404
                          /\ resp'.detail = "Item not found in cart"
                          /\ UNCHANGED <<carts_db, user_carts_db>>
                     ELSE /\ resp'.status = 200
                          /\ resp'.detail = "Item quantity updated"
                          /\ OnlyCartOf(r, s)
                          /\ Len(TableAfter(r)[key]) = Len(Table(r)[key])
                          /\ \A n \in DOMAIN Table(r)[key] :
                                 TableAfter(r)[key][n] =
                                    IF Table(r)[key][n].id = i
                                    THEN [Table(r)[key][n] EXCEPT !.quantity = q]
                                    ELSE Table(r)[key][n]
      ]_vars

\* an update has just succeeded on a cart of two entries, whose second
\* entry holds the largest quantity one add gives and whose first holds 1
C19_Witness ==
    /\ resp.op = "update" /\ resp.status = 200
    /\ resp.detail = "Item quantity updated"
    /\ \E cart \in AllCarts :
          /\ Len(cart) = 2
          /\ cart[1].quantity = 1
          /\ cart[2].quantity = MaxAddQty

\* C20: clearing a cart always answers 200 "Cart cleared", whether or not
\* the key was ever initialised; the cart the request resolves to is empty
\* afterwards and a listing answers the cart as it stands, so the listing
\* after a clear is empty; clearing a cart that is already empty or was
\* never initialised changes nothing, and no clear changes another cart or
\* initialises a key.
C20_ClearNeverFails ==
    [][/\ resp'.op = "clear" =>
             \A r \in ReqIds, s \in SessionIds :
                 \/ ~clear_cart(r, s)
                 \/ /\ resp'.status = 200 /\ resp'.detail = "Cart cleared"
                    /\ CartAfter(r, s) = <<>>
                    /\ OnlyCartOf(r, s)
                    /\ DOMAIN TableAfter(r) = DOMAIN Table(r)
                    /\ CartBefore(r, s) = <<>> => UNCHANGED <<carts_db, user_carts_db>>
       /\ resp'.op = "get" =>
             \A r \in ReqIds, s \in SessionIds :
                 \/ ~get_cart(r, s)
                 \/ /\ resp'.status = 200
                    /\ resp'.items = CartBefore(r, s)
                    /\ UNCHANGED <<carts_db, user_carts_db>>
      ]_vars

\* a clear has just succeeded on a key that was never initialised, after
\* another cart was filled
C20_Witness ==
    /\ resp.op = "clear" /\ resp.status = 200 /\ resp.detail = "Cart cleared"
    /\ carts_db = <<>>
    /\ \E u \in DOMAIN user_carts_db : user_carts_db[u] # <<>>

\* the entries of a cart stand in the order in which they were created
\* (item ids are issued in that order)
InInsertionOrder(cart) ==
    \A m, n \in DOMAIN cart : m < n => cart[m].id < cart[n].id

Presents(r, u) ==
    /\ u \in DOMAIN users_db
    /\ req[r].credentials # None
    /\ The(req[r].credentials) \in Held
    /\ The(req[r].credentials).sub = Some(u)

\* the cart of a user, as a listing answers it
UserCart(u) == Get(user_carts_db, u)
UserCartAfter(u) == Get(user_carts_db', u)

\* C22: the scenario across both services, step by step.  A request that
\* carries the token a registered user was issued at login passes the local
\* verification with that user as its subject, and when the Identity
\* Service answers the confirmation call it is resolved as that user.  For
\* a request so resolved: an add of a product p of the catalog with
\* quantity q to the user's empty (or not yet created) cart leaves exactly
\* one entry, of p with quantity q; an add of p with quantity q to a cart
\* holding exactly one entry, of p with quantity q1, leaves exactly one
\* entry, of p with quantity q1 + q; a listing answers the user's cart as it
\* stands; and a clear leaves the user's cart empty, so the listing that
\* follows answers the empty sequence.
C22_RegisterLoginAddAddClear ==
    [][\A r \in ReqIds, u \in UserIds :
          /\ (Received(r) /\ Presents(r, u)')
                => req'[r] = Request("awaiting", req'[r].credentials, Some(u), None)
          /\ (req[r].stage = "awaiting" /\ Presents(r, u)) =>
                \A legacy \in BOOLEAN :
                    \/ ~backend_get_current_user(r, legacy)
                    \/ /\ req'[r].stage = "ready"
                       /\ req'[r].current_user = Some(UserResponse(users_db[u]))
          /\ (/\ req[r].stage = "ready"
              /\ Presents(r, u)
              /\ req[r].current_user = Some(UserResponse(users_db[u]))) =>
                \A s \in SessionIds :
                    /\ resp'.op = "add" =>
                          \A p \in products_db, q \in 1 .. MaxAddQty :
                              \/ ~add_to_cart(r, s, p, q)
                              \/ /\ resp'.status = 200
                                 /\ UserCart(u) = <<>> =>
                                       /\ Len(UserCartAfter(u)) = 1
                                       /\ UserCartAfter(u)[1].product_id = p
                                       /\ UserCartAfter(u)[1].quantity = q
                                 /\ (/\ Len(UserCart(u)) = 1
                                     /\ UserCart(u)[1].product_id = p) =>
                                       /\ Len(UserCartAfter(u)) = 1
                                       /\ UserCartAfter(u)[1].product_id = p
                                       /\ UserCartAfter(u)[1].quantity =
                                              UserCart(u)[1].quantity + q
                    /\ resp'.op = "get" =>
                          \/ ~get_cart(r, s)
                          \/ resp'.status = 200 /\ resp'.items = UserCart(u)
                    /\ resp'.op = "clear" =>
                          \/ ~clear_cart(r, s)
                          \/ resp'.status = 200 /\ UserCartAfter(u) = <<>>
      ]_vars

\* a listing has just answered the cart of the registered user: one entry,
\* whose quantity only two adds or more can give, and no session cart was
\* ever created
C22_Witness ==
    /\ resp.op = "get" /\ resp.status = 200
    /\ Len(resp.items) = 1
    /\ resp.items[1].quantity > MaxAddQty
    /\ carts_db = <<>>
    /\ \E u \in DOMAIN users_db :
          u \in DOMAIN user_carts_db /\ user_carts_db[u] = resp.items

\* C23: a cart key is initialised by the first add that succeeds for it
\* and by nothing else (a listing, a clear, a removal, an update and a
\* refused add initialise no key), and an initialised key stays initialised
\* in every later state: a clear and the removal of the last entry leave
\* the key with an empty cart.  So a removal on an initialised key is never
\* refused with "Cart not found", and on a key whose cart is empty (cleared,
\* or emptied by removals) it is refused with 404 "Item not found in cart".
C23_KeyStaysInitialised ==
    [][/\ DOMAIN carts_db \subseteq DOMAIN carts_db'
       /\ DOMAIN user_carts_db \subseteq DOMAIN user_carts_db'
       /\ resp'.op # "add" =>
             /\ DOMAIN carts_db' = DOMAIN carts_db
             /\ DOMAIN user_carts_db' = DOMAIN user_carts_db
       /\ resp'.op = "add" =>
             \A r \in ReqIds, s \in SessionIds, p \in ProductIds, q \in 0 .. MaxAddQty :
                 \/ ~add_to_cart(r, s, p, q)
                 \/ /\ resp'.status = 200 =>
                          /\ DOMAIN TableAfter(r) = DOMAIN Table(r) \cup {CartKey(r, s)}
                          /\ Authenticated(r) => DOMAIN carts_db' = DOMAIN carts_db
                          /\ ~Authenticated(r) =>
                                 DOMAIN user_carts_db' = DOMAIN user_carts_db
                    /\ resp'.status # 200 =>
                          /\ DOMAIN carts_db' = DOMAIN carts_db
                          /\ DOMAIN user_carts_db' = DOMAIN user_carts_db
       /\ resp'.op = "clear" =>
             \A r \in ReqIds, s \in SessionIds :
                 \/ ~clear_cart(r, s)
                 \/ CartKey(r, s) \in DOMAIN Table(r) =>
                       /\ CartKey(r, s) \in DOMAIN TableAfter(r)
                       /\ TableAfter(r)[CartKey(r, s)] = <<>>
       /\ resp'.op = "remove" =>
             \A r \in ReqIds, s \in SessionIds, i \in ItemIds :
                 \/ ~remove_from_cart(r, s, i)
                 \/ CartKey(r, s) \in DOMAIN Table(r) =>
                       /\ resp'.detail # "Cart not found"
                       /\ Table(r)[CartKey(r, s)] = <<>> =>
                              /\ resp'.status = 404
                              /\ resp'.detail = "Item not found in cart"
      ]_vars

\* the cart of a user was added to and emptied, no session cart was ever
\* created, and a removal on the user's cart has just been refused for want
\* of the item, not of the cart
C23_Witness ==
    /\ resp.op = "remove" /\ resp.status = 404
    /\ resp.detail = "Item not found in cart"
    /\ uuid_ctr >= 1
    /\ carts_db = <<>>
    /\ \E u \in DOMAIN user_carts_db : user_carts_db[u] = <<>>

\* C24: in every reachable state every entry of every cart has a quantity
\* that is an integer >= 1 and a product_id that is the id of a product of
\* the catalog.
C24_EntriesWellFormed ==
    \A cart \in AllCarts : \A n \in DOMAIN cart :
        /\ cart[n].quantity \in Int
        /\ cart[n].quantity >= 1
        /\ cart[n].product_id \in products_db

\* an update with quantity 0 has just answered: the entry is gone, and the
\* entry the cart still holds has the least quantity an add can give
C24_Witness ==
    /\ resp.op = "update" /\ resp.status = 200
    /\ resp.detail = "Item removed from cart"
    /\ \E cart \in AllCarts : Len(cart) = 1 /\ cart[1].quantity = 1

\* C25: users are never deleted.  A user id that is in the user table is
\* in it after every step, of register, login, update of the profile,
\* change of the password and logout alike, and the user stored under it
\* has the same id, the same email and the same created_at.
C25_UsersNeverDeleted ==
    [][\A u \in DOMAIN users_db :
          /\ u \in DOMAIN users_db'
          /\ users_db'[u].id = users_db[u].id
          /\ users_db'[u].email = users_db[u].email
          /\ users_db'[u].created_at = users_db[u].created_at
      ]_vars

\* long after its registration a user whose profile and password were
\* changed has just logged out, and is still stored, beside another user
C25_Witness ==
    /\ resp.op = "logout" /\ resp.status = 200
    /\ now = Late
    /\ Cardinality(DOMAIN users_db) = 2
    /\ \E u \in DOMAIN users_db :
          /\ users_db[u].created_at = 0
          /\ users_db[u].first_name = "Jane"
          /\ users_db[u].password = hashpw("0therPass!", "salt2")

\* C26: what the root endpoint of the Catalog/Cart Service answers is the
\* object with the one field "message", of value "Welcome to Luxe Jewelry
\* Store API", and no other field.
C26_RootIsWelcomeOnly ==
    resp.op = "root" =>
        /\ resp.status = 200
        /\ DOMAIN resp.body = {"message"}
        /\ resp.body.message = "Welcome to Luxe Jewelry Store API"

\* C27: the order of the resolution of a request.  The call to the profile
\* endpoint of the Identity Service starts at the reception of a request and
\* nowhere else, and only for a request whose token passed the local
\* verification and gave a subject, which is the subject the call is made
\* for; a request without a token, with a token that fails the local
\* verification or with a token without a subject goes to its handler at
\* once, without a call and without a user.  The call ends with its first
\* answer or failure, and a request that has reached its handler makes no
\* call again: at most one call for each cart operation.
C27_ConfirmAfterLocalVerification ==
    [][\A r \in ReqIds :
          /\ (Received(r) /\ req'[r].stage = "awaiting") =>
                /\ req'[r].credentials # None
                /\ ~LocallyInvalid(The(req'[r].credentials), now)
                /\ The(req'[r].credentials).sub # None
                /\ req'[r].user_id = The(req'[r].credentials).sub
                /\ req'[r].current_user = None
          /\ (/\ Received(r)
              /\ \/ req'[r].credentials = None
                 \/ LocallyInvalid(The(req'[r].credentials), now)
                 \/ The(req'[r].credentials).sub = None) =>
                /\ req'[r].stage = "ready"
                /\ req'[r].user_id = None
                /\ req'[r].current_user = None
          /\ (req'[r].stage = "awaiting" /\ req[r].stage # "awaiting") =>
                req[r].stage = "idle"
          /\ (req[r].stage = "awaiting" /\ req'[r] # req[r]) =>
                /\ req'[r].stage = "ready"
                /\ req'[r].credentials = req[r].credentials
                /\ req'[r].user_id = req[r].user_id
          /\ req[r].stage = "ready" => req'[r].stage \in {"ready", "idle"}
          /\ (req'[r].current_user # None /\ req[r].current_user = None) =>
                req[r].stage = "awaiting"
      ]_vars

\* after the expiry of the tokens issued at the start, a request that came
\* with a token still valid stands resolved as the user the Identity
\* Service answered for the subject of the token
C27_Witness ==
    /\ now = Late
    /\ \E r \in ReqIds :
          /\ req[r].stage = "ready"
          /\ req[r].credentials # None
          /\ req[r].user_id = The(req[r].credentials).sub
          /\ req[r].current_user # None
          /\ The(req[r].current_user).id = The(req[r].user_id)

\* a terminal outcome of a cart operation: success, or one of the three
\* refusals
Terminal(response) ==
    \/ response.status = 200
    \/ /\ response.status = 404
       /\ response.detail \in {"Product not found", "Cart not found",
                                "Item not found in cart"}

\* the refusal of a request whose quantity is out of range
Refused(response) == response.status = 422 /\ response.op \in {"add", "update"}

\* C28: every cart operation that was received completes in the end, given
\* that its confirmation call returns or fails in the end, whatever the
\* other requests do; it completes in a step of its handler and never from
\* the wait for the Identity Service, and what is answered then is a
\* terminal outcome: success, "Product not found", "Cart not found" or
\* "Item not found in cart" (or the refusal of a quantity out of range,
\* which an add with quantity >= 1 and an update with quantity >= 0 never
\* get).
C28_CartOperationsComplete ==
    /\ \A r \in ReqIds : (req[r].stage # "idle") ~> (req[r].stage = "idle")
    /\ [][\A r \in ReqIds :
             (req[r].stage # "idle" /\ req'[r].stage = "idle") =>
                /\ req[r].stage = "ready"
                /\ resp'.op \in {"add", "get", "remove", "update", "clear"}
                /\ Terminal(resp') \/ Refused(resp')
                /\ resp'.op = "add" =>
                      \A p \in {1, 7}, q \in 1 .. MaxAddQty :
                          Terminal(resp') \/ ~add_to_cart(r, 1, p, q)
                /\ resp'.op = "update" =>
                      \A i \in ItemIds, q \in 0 .. MaxAddQty :
                          Terminal(resp') \/ ~update_cart_item(r, 1, i, q)
        ]_vars

\* a cart operation has just been refused for want of the item while
\* another request waits for the Identity Service
C28_Witness ==
    /\ resp.op = "update" /\ resp.status = 404
    /\ resp.detail = "Item not found in cart"
    /\ \E r \in ReqIds : req[r].stage = "awaiting"

\* C29: in every reachable state every stored user has is_active true,
\* and no login has been answered 400 "Inactive user".
C29_NoInactiveUser ==
    /\ \A u \in DOMAIN users_db : users_db[u].is_active = TRUE
    /\ ~(resp.op = "login" /\ resp.status = 400)

\* a user whose profile and password were changed has just logged in
C29_Witness ==
    /\ resp.op = "login" /\ resp.status = 200
    /\ \E u \in DOMAIN users_db :
          /\ resp.user = Some(UserResponse(users_db[u]))
          /\ users_db[u].first_name = "Jane"
          /\ users_db[u].password = hashpw("0therPass!", "salt2")

\* the answer "Cart not found" of a removal or of an update
NoCart(response) ==
    /\ response.op \in {"remove", "update"}
    /\ response.status = 404 /\ response.detail = "Cart not found"

\* C30: the session carts and the user carts are two tables, and a key of
\* one is no key of the other even when the two are equal.  The handler of
\* a request resolved without a user, called with a session id equal to the
\* id of a stored user, leaves every user cart as it was, lists the session
\* cart of that id and answers "Cart not found" by the session table alone;
\* the handler of a request resolved as a user leaves every session cart as
\* it was, the one keyed by the user's id included, lists the user's cart
\* and answers "Cart not found" by the user table alone.
C30_SeparateKeySpaces ==
    [][\A r \in ReqIds :
          /\ (req[r].stage = "ready" /\ req[r].current_user = None) =>
                \A s \in SessionIds \cap DOMAIN users_db :
                    \/ ~BodyStep(r, s)
                    \/ /\ user_carts_db' = user_carts_db
                       /\ resp'.op = "get" => resp'.items = Get(carts_db, s)
                       /\ (resp'.op \in {"remove", "update"} /\ resp'.status # 422) =>
                              (NoCart(resp') <=> s \notin DOMAIN carts_db)
          /\ (req[r].stage = "ready" /\ req[r].current_user # None) =>
                \A s \in SessionIds :
                    \/ ~BodyStep(r, s)
                    \/ /\ carts_db' = carts_db
                       /\ resp'.op = "get" =>
                              resp'.items =
                                  Get(user_carts_db, The(req[r].current_user).id)
                       /\ (resp'.op \in {"remove", "update"} /\ resp'.status # 422) =>
                              (NoCart(resp') <=>
                                  The(req[r].current_user).id \notin DOMAIN user_carts_db)
      ]_vars

\* a user and a session have the same id and carts that differ, and a
\* listing has just answered the one of the session
C30_Witness ==
    \E k \in DOMAIN users_db \cap DOMAIN carts_db \cap DOMAIN user_carts_db :
        /\ k \in SessionIds
        /\ carts_db[k] # <<>> /\ user_carts_db[k] # <<>>
        /\ carts_db[k] # user_carts_db[k]
        /\ resp.op = "get" /\ resp.status = 200
        /\ resp.items = carts_db[k]

\* C31: a cart operation changes at most the one cart it resolved to.  The
\* handler of a request resolved without a user leaves every user cart and
\* every session cart but the one of its session id as it was; the handler
\* of a request resolved as a user leaves every session cart and every user
\* cart but that user's as it was; and no step that is not a step of a
\* handler changes a cart.  The catalog is the same in every state: no
\* handler writes products_db.
C31_OnlyTheResolvedCartChanges ==
    [][/\ \A r \in ReqIds :
             req[r].stage = "ready" =>
                \A s \in SessionIds :
                    \/ ~BodyStep(r, s)
                    \/ IF req[r].current_user = None
                       THEN OnlySessionCart(s)
                       ELSE OnlyUserCart(The(req[r].current_user).id)
       /\ (carts_db' # carts_db \/ user_carts_db' # user_carts_db) =>
             /\ resp'.op \in {"add", "remove", "update", "clear"}
             /\ resp'.status = 200
             /\ \E r \in ReqIds : req[r].stage = "ready" /\ req'[r].stage = "idle"
      ]_vars

\* a clear has just emptied the cart of one session, and the cart of the
\* other session holds its entry still
C31_Witness ==
    /\ resp.op = "clear" /\ resp.status = 200
    /\ \E k, l \in DOMAIN carts_db :
          /\ k # l
          /\ carts_db[k] = <<>>
          /\ carts_db[l] # <<>>
    /\ uuid_ctr = 2

\* C32: a cart operation that ends in an error changes no cart state.  An
\* add refused with "Product not found" initialises no key and alters no
\* entry; a removal and an update refused with "Cart not found" or "Item
\* not found in cart" initialise no key and alter no entry; nor does a
\* request refused for its quantity.
C32_ErrorsChangeNothing ==
    [][(/\ resp'.op \in {"add", "get", "remove", "update", "clear"}
        /\ resp'.status # 200
        /\ \E r \in ReqIds : req[r].stage = "ready" /\ req'[r].stage = "idle")
          => /\ resp'.status \in {404, 422}
             /\ resp'.op \in {"add", "remove", "update"}
             /\ UNCHANGED <<carts_db, user_carts_db, uuid_ctr>>
      ]_vars

\* an add has just been refused for its product, and no cart key of
\* either table is initialised
C32_Witness ==
    /\ resp.op = "add" /\ resp.status = 404 /\ resp.detail = "Product not found"
    /\ carts_db = <<>> /\ user_carts_db = <<>>
    /\ uuid_ctr = 0

\* the quantity a cart holds of a product: that of its entry, 0 without one
QuantityOf(cart, product_id) ==
    IF EntriesFor(cart, product_id) = {} THEN 0
    ELSE cart[CHOOSE n \in EntriesFor(cart, product_id) : TRUE].quantity

\* C33: concurrent adds on a cart key lose no update.  Whatever the other
\* request did since this one was received, and wherever the other one
\* stands, the add of quantity q of product p that succeeds raises the
\* quantity the cart holds of p, as it is when the handler runs, by exactly
\* q, keeps one entry for p, and leaves the quantity of every other product
\* as it is; so after two adds of q1 and q2 of one product the entry has
\* grown by q1 + q2, and after adds of two products both entries are there.
C33_NoLostUpdate ==
    [][resp'.op = "add" =>
          \A r \in ReqIds, p \in products_db, q \in 1 .. MaxAddQty :
              \/ ~add_to_cart(r, 1, p, q)
              \/ /\ resp'.status = 200
                 /\ QuantityOf(CartAfter(r, 1), p) = QuantityOf(CartBefore(r, 1), p) + q
                 /\ Cardinality(EntriesFor(CartAfter(r, 1), p)) = 1
                 /\ \A o \in products_db \ {p} :
                        /\ QuantityOf(CartAfter(r, 1), o) = QuantityOf(CartBefore(r, 1), o)
                        /\ Cardinality(EntriesFor(CartAfter(r, 1), o)) =
                               Cardinality(EntriesFor(CartBefore(r, 1), o))
      ]_vars

\* an add has just brought an entry of the session cart to a quantity that
\* takes two adds, beside an entry of another product, while the other
\* request stands ready to run its handler
C33_Witness ==
    /\ resp.op = "add" /\ resp.status = 200 /\ resp.cart_items = Some(2)
    /\ \E k \in DOMAIN carts_db :
          /\ Len(carts_db[k]) = 2
          /\ \E n \in DOMAIN carts_db[k] : carts_db[k][n].quantity > MaxAddQty
    /\ \E r \in ReqIds : req[r].stage = "ready" /\ req[r].credentials = None

\* C34: tokens are never revoked.  A logout changes no state.  In every
\* state, whatever logouts, changes of the password and updates of the
\* profile of its user came after it was issued, a token that register or
\* login issued is accepted by the Identity Service, for the user it was
\* issued to, exactly as long as its expiry has not passed; as long the
\* local verification of the Catalog/Cart Service gives that user's id as
\* the subject, and the confirmation call for that subject answers the
\* stored user, so that cart operations are resolved as authenticated.
C34_TokensNeverRevoked ==
    /\ [](\A i \in issued, legacy \in BOOLEAN :
             LET passed == exp_passed(The(i.token.exp), now, legacy)
                 cur == get_current_user(Some(i.token), now, legacy)
                 confirmed == get_current_user(Some(confirmation_token(Some(i.user_id))),
                                               now, legacy)
             IN  /\ i.user_id \in DOMAIN users_db
                 /\ cur.status = 200 <=> ~passed
                 /\ ~passed => cur.user = Some(users_db[i.user_id])
                 /\ backend_verify_token(Some(i.token), now, legacy) =
                        (IF passed THEN None ELSE Some(i.user_id))
                 /\ confirmed.status = 200
                 /\ The(confirmed.user).id = i.user_id)
    /\ [][resp'.op = "logout" =>
             \A credentials \in Bearer, legacy \in BOOLEAN :
                 \/ ~logout_user(credentials, legacy)
                 \/ UNCHANGED <<now, users_db, issued, cartVars>>
        ]_vars

\* before the expiry of the token it was issued at registration, a user
\* whose profile and password were changed has just logged out, and the
\* token is accepted still
C34_Witness ==
    /\ resp.op = "logout" /\ resp.status = 200
    /\ now = 0
    /\ \E i \in issued :
          /\ users_db[i.user_id].first_name = "Jane"
          /\ users_db[i.user_id].password = hashpw("0therPass!", "salt2")
          /\ get_current_user(Some(i.token), now, FALSE).status = 200

\* C35: a cart operation is treated as authenticated only if, when the
\* confirmation call is made, the subject of the token is the id of a user
\* the Identity Service stores; the user it is resolved as is that stored
\* user, and the key of the cart its handler uses is that user's id.  A
\* request whose token is correctly signed and not expired but carries no
\* subject goes to its handler at once without a user; one whose subject is
\* the id of no stored user when the call is made comes out of the call
\* without a user; and the handler of either acts on the session cart of
\* its session id.
C35_AuthenticatedOnlyIfStored ==
    [][\A r \in ReqIds :
          /\ (/\ Received(r)
              /\ req'[r].credentials # None
              /\ ~Malformed(The(req'[r].credentials))
              /\ ~WrongSignature(The(req'[r].credentials))
              /\ The(req'[r].credentials).sub = None) =>
                req'[r] = Request("ready", req'[r].credentials, None, None)
          /\ (req[r].stage = "awaiting" /\ req'[r] # req[r]) =>
                /\ req[r].user_id # None
                /\ The(req[r].user_id) \notin DOMAIN users_db =>
                       req'[r].current_user = None
                /\ req'[r].current_user # None =>
                       /\ The(req[r].user_id) \in DOMAIN users_db
                       /\ req'[r].current_user =
                              Some(UserResponse(users_db[The(req[r].user_id)]))
          /\ (req[r].stage = "ready" /\ req[r].current_user # None) =>
                /\ The(req[r].current_user).id \in DOMAIN users_db
                /\ req[r].user_id = Some(The(req[r].current_user).id)
                /\ \A s \in SessionIds :
                       \/ ~BodyStep(r, s)
                       \/ OnlyUserCart(The(req[r].current_user).id)
          /\ (req[r].stage = "ready" /\ req[r].current_user = None) =>
                \A s \in SessionIds : ~BodyStep(r, s) \/ OnlySessionCart(s)
      ]_vars

\* a request came with a correctly signed token without expiry whose
\* subject is the id of no stored user, the call was made, and the request
\* stands resolved without a user
C35_Witness ==
    \E r \in ReqIds :
        /\ req[r].stage = "ready"
        /\ req[r].credentials # None
        /\ ~WrongSignature(The(req[r].credentials))
        /\ The(req[r].credentials).exp = None
        /\ req[r].user_id # None
        /\ The(req[r].user_id) \notin DOMAIN users_db
        /\ req[r].current_user = None

====
